---- MODULE Spec2Model ----
(***************************************************************************)
(* Model of the hockey statistics application (src/app.py): the GameStat   *)
(* and Game tables, the request handlers that write them                   *)
(* (save_game_stats, delete_stat, delete_game, delete_games_bulk), the     *)
(* read handlers (index, games) and the two derived views                  *)
(* (Player.get_total_stats, build_games_list).                             *)
(*                                                                         *)
(* Spec      one request at a time, each handler one atomic action.        *)
(* SpecView  build_games_list applied to arbitrary table contents.         *)
(* SpecConc  two save_game_stats requests interleaved statement by         *)
(*           statement on one SQLite database.                             *)
(***************************************************************************)
EXTENDS Integers, Sequences, FiniteSets, Bags, TLC

VARIABLES stats, games, req, resp, pre, cstats, cgames, lock, last_commit, proc

vars == <<stats, games, req, resp, pre, cstats, cgames, lock, last_commit, proc>>

----------------------------------------------------------------------------
(* Bounds of the model *)

NumPlayers == 2
NumDates == 2
MaxEntries == 2
MaxBulk == 2
MaxRequests == 3

----------------------------------------------------------------------------
(* Python values carried by request payloads *)

NoneVal == [t |-> "None"]
IntVal(n) == [t |-> "int", v |-> n]
BoolVal(b) == [t |-> "bool", v |-> b]
StrVal(s) == [t |-> "str", v |-> s]

\* bool(x)
Truthy(x) ==
    CASE x.t = "None" -> FALSE
      [] x.t = "int" -> x.v # 0
      [] x.t = "bool" -> x.v
      [] x.t = "str" -> Len(x.v) > 0

\* x or d
OrElse(x, d) == IF Truthy(x) THEN x ELSE d

\* d.get(k, default)
DictGet(d, k, default) == IF k \in DOMAIN d THEN d[k] ELSE default

Whitespace == {" "}
Digits == <<"0", "1", "2", "3", "4", "5", "6", "7", "8", "9">>
IsDigit(c) == \E i \in 1..10 : Digits[i] = c
DigitVal(c) == (CHOOSE i \in 1..10 : Digits[i] = c) - 1

RECURSIVE LStrip(_)
LStrip(s) == IF s # <<>> /\ Head(s) \in Whitespace THEN LStrip(Tail(s)) ELSE s

RECURSIVE RStrip(_)
RStrip(s) ==
    IF s # <<>> /\ s[Len(s)] \in Whitespace THEN RStrip(SubSeq(s, 1, Len(s) - 1)) ELSE s

\* str.strip()
strip(s) == RStrip(LStrip(s))

RECURSIVE DigitsValue(_)
DigitsValue(s) ==
    IF s = <<>> THEN 0 ELSE 10 * DigitsValue(SubSeq(s, 1, Len(s) - 1)) + DigitVal(s[Len(s)])

AllDigits(s) == s # <<>> /\ \A i \in 1..Len(s) : IsDigit(s[i])

\* int(x) for the values that reach it: an int is returned as is, a string is
\* stripped and read as an optionally signed decimal, anything else raises.
ToInt(x) ==
    IF x.t = "int" THEN [ok |-> TRUE, v |-> x.v]
    ELSE IF x.t = "bool" THEN [ok |-> TRUE, v |-> IF x.v THEN 1 ELSE 0]
    ELSE IF x.t = "str" THEN
        LET s == strip(x.v)
            signed == s # <<>> /\ Head(s) \in {"-", "+"}
            body == IF signed THEN Tail(s) ELSE s
        IN  IF AllDigits(body)
            THEN [ok |-> TRUE,
                  v |-> IF signed /\ Head(s) = "-" THEN 0 - DigitsValue(body) ELSE DigitsValue(body)]
            ELSE [ok |-> FALSE, err |-> "ValueError"]
    ELSE [ok |-> FALSE, err |-> "TypeError"]

\* int(player_stat.get(field, 0) or 0)
Coerce(player_stat, field) ==
    ToInt(OrElse(DictGet(player_stat, field, IntVal(0)), IntVal(0)))

\* The four coerced values of an entry all of whose fields coerce
EntryValues(e) ==
    <<Coerce(e, "plus_minus").v, Coerce(e, "blocked_shots").v,
      Coerce(e, "takeaways").v, Coerce(e, "shots_taken").v>>

----------------------------------------------------------------------------
(* Dates: datetime values are 1..NumDates in chronological order *)

Dates == 1..NumDates

IsoStr(d) == [kind |-> "iso", d |-> d]
JunkStr == [kind |-> "junk"]
DateStrs == {IsoStr(d) : d \in Dates} \cup {JunkStr}

\* datetime.fromisoformat(date_str)
fromisoformat(s) ==
    IF s.kind = "iso" THEN [ok |-> TRUE, v |-> s.d] ELSE [ok |-> FALSE, err |-> "ValueError"]

----------------------------------------------------------------------------
(* Tables *)

\* init_db: the roster, in insertion order; a player's id is its position
players_data ==
    << <<4, "Ryder">>, <<5, "Sebastian">>, <<6, "Hudson">>, <<11, "Juna">>,
       <<12, "Bowen">>, <<13, "Cole">>, <<14, "Leo">>, <<16, "Shea">>,
       <<20, "Pierre">>, <<29, "Matthew">>, <<35, "Carter">>, <<37, "Slade">>,
       <<38, "Andrew">>, <<39, "Ryland">>, <<41, "Asher">>, <<44, "Brooks">> >>

\* The Player table: the first NumPlayers rows of the roster
Player == [id \in 1..NumPlayers |-> [id |-> id, number |-> players_data[id][1], name |-> players_data[id][2]]]

PlayerIds == DOMAIN Player

Fields == <<"plus_minus", "blocked_shots", "takeaways", "shots_taken">>

\* A GameStat row.  The table is a bag of rows: the surrogate id column is the
\* identity of a copy in the bag, and nothing constrains (player_id, game_date).
GameStat(player_id, game_date, pm, bs, tk, st) ==
    [player_id |-> player_id, game_date |-> game_date, plus_minus |-> pm,
     blocked_shots |-> bs, takeaways |-> tk, shots_taken |-> st]

\* A Game row; game_date is UNIQUE, name is nullable
Game(game_date, name) == [game_date |-> game_date, name |-> name]

One(r) == SetToBag({r})

\* The four counters of a row
Counters(r) == <<r.plus_minus, r.blocked_shots, r.takeaways, r.shots_taken>>
AllZero == <<0, 0, 0, 0>>

\* GameStat.query.filter_by(player_id=..., game_date=...)
StatsFor(S, player_id, game_date) ==
    {r \in BagToSet(S) : r.player_id = player_id /\ r.game_date = game_date}

\* GameStat.query.filter_by(game_date=...).all(), with multiplicity
StatsOn(S, game_date) ==
    [r \in {x \in BagToSet(S) : x.game_date = game_date} |-> S[r]]

\* Game.query.filter_by(game_date=...)
GamesOn(G, game_date) == {g \in G : g.game_date = game_date}

\* Query.first(): some matching row (no ORDER BY), defined when rows # {}
first(rows) == CHOOSE r \in rows : TRUE

----------------------------------------------------------------------------
(* Player.get_total_stats *)

\* Variant of PlayerStats: the rows of every player
PlayerStats_All(S, player_id) == S

\* player.stats: the rows the relationship loads for the player
PlayerStats(S, player_id) ==
    [r \in {x \in BagToSet(S) : x.player_id = player_id} |-> S[r]]

\* sum(stat.<field> for stat in self.stats)
RECURSIVE sum(_, _)
sum(B, field) ==
    IF BagToSet(B) = {} THEN 0
    ELSE LET r == CHOOSE x \in BagToSet(B) : TRUE
         IN  r[field] + sum(B (-) One(r), field)

get_total_stats(S, player_id) ==
    LET self_stats == PlayerStats(S, player_id)
    IN  [plus_minus |-> sum(self_stats, "plus_minus"),
         blocked_shots |-> sum(self_stats, "blocked_shots"),
         takeaways |-> sum(self_stats, "takeaways"),
         shots_taken |-> sum(self_stats, "shots_taken"),
         games_played |-> BagCardinality(self_stats)]

----------------------------------------------------------------------------
(* build_games_list *)

\* gdate.strftime('%Y-%m-%dT%H:%M') and gdate.strftime('%Y-%m-%d %I:%M %p')
date_iso(d) == IsoStr(d)
date_str(d) == [kind |-> "display", d |-> d]

GameView(S, G, gdate) ==
    LET name == IF GamesOn(G, gdate) # {} THEN first(GamesOn(G, gdate)).name ELSE NoneVal
    IN  [game_date |-> gdate,
         date_str |-> date_str(gdate),
         date_iso |-> date_iso(gdate),
         name |-> OrElse(name, StrVal(<<>>)).v,
         entries_count |-> BagCardinality(StatsOn(S, gdate))]

\* for gdate in all_dates: ... games_list.append(...), in some iteration order
RECURSIVE AppendViews(_, _, _)
AppendViews(S, G, all_dates) ==
    IF all_dates = {} THEN <<>>
    ELSE LET gdate == CHOOSE d \in all_dates : TRUE
         IN  <<GameView(S, G, gdate)>> \o AppendViews(S, G, all_dates \ {gdate})

\* Variant of InsertDesc: ascending order
RECURSIVE InsertDesc_Ascending(_, _)
InsertDesc_Ascending(x, sorted) ==
    IF sorted = <<>> THEN <<x>>
    ELSE IF x.game_date < Head(sorted).game_date THEN <<x>> \o sorted
    ELSE <<Head(sorted)>> \o InsertDesc_Ascending(x, Tail(sorted))

\* list.sort(key=game_date, reverse=True), as an insertion sort
RECURSIVE InsertDesc(_, _)
InsertDesc(x, sorted) ==
    IF sorted = <<>> THEN <<x>>
    ELSE IF x.game_date > Head(sorted).game_date THEN <<x>> \o sorted
    ELSE <<Head(sorted)>> \o InsertDesc(x, Tail(sorted))

RECURSIVE SortDesc(_)
SortDesc(l) == IF l = <<>> THEN <<>> ELSE InsertDesc(l[Len(l)], SortDesc(SubSeq(l, 1, Len(l) - 1)))

\* game_date is never NULL in either table, so `if not gdate: continue` skips nothing
build_games_list(S, G) ==
    LET games_map_keys == {g.game_date : g \in G}
        distinct_dates == {r.game_date : r \in BagToSet(S)}
        all_dates == games_map_keys \cup distinct_dates
    IN  SortDesc(AppendViews(S, G, all_dates))

----------------------------------------------------------------------------
(* Requests and responses *)

NoReq == [op |-> "none"]
NoResp == [status |-> 0]
NoPre == [stats |-> EmptyBag, games |-> {}]

\* jsonify({'success': ..., 'message': ...}) with its status code
Json(status, success, message) == [status |-> status, success |-> success, message |-> message]

\* redirect(url_for(endpoint))
Redirect(endpoint) == [status |-> 302, location |-> endpoint]

\* An exception that leaves the view function: Flask answers 500
Unhandled(exception) == [status |-> 500, exception |-> exception]

\* get_or_404
NotFound == [status |-> 404]

\* render_template(template, **context)
Rendered(template, context) == [status |-> 200, template |-> template, context |-> context]

----------------------------------------------------------------------------
(* save_game_stats *)

\* The session of one save_game_stats call: the exception raised if any, its
\* view of the GameStat table (autoflush makes every query see the pending
\* changes) and the any_nonzero flag.
Session(S) == [err |-> "", stats |-> S, any_nonzero |-> FALSE]

\* Variants of Upsert: an all-zero entry zeroes the row; a non-zero entry adds
\* to the row.
Upsert_ZeroKept(sess, player_id, game_date, pm, bs, tk, st) ==
    LET found == StatsFor(sess.stats, player_id, game_date)
        existing == first(found)
        row == GameStat(player_id, game_date, pm, bs, tk, st)
    IN  IF found # {}
        THEN [sess EXCEPT !.any_nonzero = @ \/ Counters(row) # AllZero,
                          !.stats = (@ (-) One(existing)) (+) One(row)]
        ELSE IF Counters(row) = AllZero THEN sess
        ELSE [sess EXCEPT !.any_nonzero = TRUE, !.stats = @ (+) One(row)]

Upsert_Increment(sess, player_id, game_date, pm, bs, tk, st) ==
    LET found == StatsFor(sess.stats, player_id, game_date)
        existing == first(found)
    IN  IF pm = 0 /\ bs = 0 /\ tk = 0 /\ st = 0
        THEN IF found # {} THEN [sess EXCEPT !.stats = @ (-) One(existing)] ELSE sess
        ELSE IF found # {}
             THEN [sess EXCEPT
                     !.any_nonzero = TRUE,
                     !.stats = (@ (-) One(existing)) (+)
                               One([existing EXCEPT !.plus_minus = @ + pm,
                                                    !.blocked_shots = @ + bs,
                                                    !.takeaways = @ + tk,
                                                    !.shots_taken = @ + st])]
             ELSE [sess EXCEPT
                     !.any_nonzero = TRUE,
                     !.stats = @ (+) One(GameStat(player_id, game_date, pm, bs, tk, st))]

\* Lines 178-204: find the existing row, then delete, update or insert
Upsert(sess, player_id, game_date, pm, bs, tk, st) ==
    LET found == StatsFor(sess.stats, player_id, game_date)
        existing == first(found)
    IN  IF pm = 0 /\ bs = 0 /\ tk = 0 /\ st = 0
        THEN IF found # {} THEN [sess EXCEPT !.stats = @ (-) One(existing)] ELSE sess
        ELSE IF found # {}
             THEN [sess EXCEPT
                     !.any_nonzero = TRUE,
                     !.stats = (@ (-) One(existing)) (+)
                               One([existing EXCEPT !.plus_minus = pm,
                                                    !.blocked_shots = bs,
                                                    !.takeaways = tk,
                                                    !.shots_taken = st])]
             ELSE [sess EXCEPT
                     !.any_nonzero = TRUE,
                     !.stats = @ (+) One(GameStat(player_id, game_date, pm, bs, tk, st))]

\* One pass of the loop body over player_stat: the four coercions in order,
\* then the lookup by player_stat['player_id'], then the upsert.
LoopBody(sess, player_stat, game_date) ==
    LET pm == Coerce(player_stat, "plus_minus")
        bs == Coerce(player_stat, "blocked_shots")
        tk == Coerce(player_stat, "takeaways")
        st == Coerce(player_stat, "shots_taken")
    IN  IF ~pm.ok THEN [sess EXCEPT !.err = pm.err]
        ELSE IF ~bs.ok THEN [sess EXCEPT !.err = bs.err]
        ELSE IF ~tk.ok THEN [sess EXCEPT !.err = tk.err]
        ELSE IF ~st.ok THEN [sess EXCEPT !.err = st.err]
        ELSE IF "player_id" \notin DOMAIN player_stat THEN [sess EXCEPT !.err = "KeyError"]
        ELSE Upsert(sess, player_stat.player_id, game_date, pm.v, bs.v, tk.v, st.v)

\* for player_stat in data['players']: the loop stops at the first exception
RECURSIVE Loop(_, _, _, _)
Loop(sess, players, i, game_date) ==
    IF i > Len(players) \/ sess.err # "" THEN sess
    ELSE Loop(LoopBody(sess, players[i], game_date), players, i + 1, game_date)

\* Variant of UpsertGame: a missing Game row is always created
UpsertGame_Always(G, game_date, game_name, any_nonzero) ==
    IF GamesOn(G, game_date) # {}
    THEN LET game == first(GamesOn(G, game_date))
         IN  IF game_name # <<>>
             THEN (G \ {game}) \cup {[game EXCEPT !.name = StrVal(game_name)]}
             ELSE G
    ELSE G \cup {Game(game_date, IF game_name # <<>> THEN StrVal(game_name) ELSE NoneVal)}

\* Upsert of the Game record
UpsertGame(G, game_date, game_name, any_nonzero) ==
    IF GamesOn(G, game_date) # {}
    THEN LET game == first(GamesOn(G, game_date))
         IN  IF game_name # <<>>
             THEN (G \ {game}) \cup {[game EXCEPT !.name = StrVal(game_name)]}
             ELSE G
    ELSE IF game_name # <<>> \/ any_nonzero
         THEN G \cup {Game(game_date, IF game_name # <<>> THEN StrVal(game_name) ELSE NoneVal)}
         ELSE G

\* (data.get('game_name') or '').strip()
GameName(data) == strip(OrElse(DictGet(data, "game_name", NoneVal), StrVal(<<>>)).v)

\* Variant of SaveGameStats: the except branch answers without rolling back
SaveGameStats_NoRollback(S, G, data, commit_ok) ==
    LET parsed == fromisoformat(data.game_date)
    IN  IF ~parsed.ok
        THEN [stats |-> S, games |-> G, resp |-> Unhandled(parsed.err)]
        ELSE
            LET game_date == parsed.v
                game_name == GameName(data)
                sess == Loop(Session(S), data.players, 1, game_date)
            IN  IF sess.err # ""
                THEN [stats |-> sess.stats, games |-> G, resp |-> Json(400, FALSE, sess.err)]
                ELSE IF ~commit_ok
                THEN [stats |-> S, games |-> G, resp |-> Json(400, FALSE, "OperationalError")]
                ELSE [stats |-> sess.stats,
                      games |-> UpsertGame(G, game_date, game_name, sess.any_nonzero),
                      resp |-> Json(200, TRUE,
                                    IF Truthy(DictGet(data, "autosave", NoneVal))
                                    THEN "Autosaved" ELSE "Game stats saved successfully!")]

\* The outcome of the view on tables (S, G): the tables after it and the response
SaveGameStats(S, G, data, commit_ok) ==
    LET parsed == fromisoformat(data.game_date)
    IN  IF ~parsed.ok
        THEN [stats |-> S, games |-> G, resp |-> Unhandled(parsed.err)]
        ELSE
            LET game_date == parsed.v
                game_name == GameName(data)
                sess == Loop(Session(S), data.players, 1, game_date)
            IN  IF sess.err # ""
                THEN [stats |-> S, games |-> G, resp |-> Json(400, FALSE, sess.err)]
                ELSE IF ~commit_ok
                THEN [stats |-> S, games |-> G, resp |-> Json(400, FALSE, "OperationalError")]
                ELSE [stats |-> sess.stats,
                      games |-> UpsertGame(G, game_date, game_name, sess.any_nonzero),
                      resp |-> Json(200, TRUE,
                                    IF Truthy(DictGet(data, "autosave", NoneVal))
                                    THEN "Autosaved" ELSE "Game stats saved successfully!")]

----------------------------------------------------------------------------
(* Deletions *)

\* delete_stat: the view on table S for the row the id names (NoneVal: no row)
DeleteStat(S, stat, commit_ok) ==
    IF stat \notin BagToSet(S) THEN [stats |-> S, resp |-> NotFound]
    ELSE IF ~commit_ok THEN [stats |-> S, resp |-> Unhandled("OperationalError")]
    ELSE [stats |-> S (-) One(stat), resp |-> Redirect("player_detail")]

\* for s in stats: db.session.delete(s); if game: db.session.delete(game)
DeleteDate(T, game_date) ==
    [stats |-> T.stats (-) StatsOn(T.stats, game_date),
     games |-> T.games \ GamesOn(T.games, game_date)]

\* Variant of DeleteGame: the Game record is left in place
DeleteGame_KeepGame(S, G, date_str_, commit_ok) ==
    LET parsed == fromisoformat(date_str_)
        T == [stats |-> S, games |-> G]
    IN  IF ~parsed.ok THEN T @@ [resp |-> Redirect("index")]
        ELSE IF ~commit_ok THEN T @@ [resp |-> Redirect("index")]
        ELSE [stats |-> DeleteDate(T, parsed.v).stats, games |-> G, resp |-> Redirect("index")]

\* delete_game
DeleteGame(S, G, date_str_, commit_ok) ==
    LET parsed == fromisoformat(date_str_)
        T == [stats |-> S, games |-> G]
    IN  IF ~parsed.ok THEN T @@ [resp |-> Redirect("index")]
        ELSE IF ~commit_ok THEN T @@ [resp |-> Redirect("index")]
        ELSE DeleteDate(T, parsed.v) @@ [resp |-> Redirect("index")]

\* Variant of BulkLoop: an unparseable string ends the loop
RECURSIVE BulkLoop_Break(_, _, _)
BulkLoop_Break(T, date_strs, i) ==
    IF i > Len(date_strs) THEN T
    ELSE LET parsed == fromisoformat(date_strs[i])
         IN  IF ~parsed.ok THEN T
             ELSE BulkLoop_Break(DeleteDate(T, parsed.v), date_strs, i + 1)

\* for date_str in date_strs: an unparseable string is skipped
RECURSIVE BulkLoop(_, _, _)
BulkLoop(T, date_strs, i) ==
    IF i > Len(date_strs) THEN T
    ELSE LET parsed == fromisoformat(date_strs[i])
         IN  IF ~parsed.ok THEN BulkLoop(T, date_strs, i + 1)
             ELSE BulkLoop(DeleteDate(T, parsed.v), date_strs, i + 1)

\* delete_games_bulk
DeleteGamesBulk(S, G, date_strs, commit_ok) ==
    LET T == [stats |-> S, games |-> G]
    IN  IF ~commit_ok THEN T @@ [resp |-> Redirect("games")]
        ELSE BulkLoop(T, date_strs, 1) @@ [resp |-> Redirect("games")]

----------------------------------------------------------------------------
(* Request payloads *)

PayloadZero ==
    [plus_minus |-> IntVal(0), blocked_shots |-> NoneVal,
     takeaways |-> StrVal(<<>>), shots_taken |-> StrVal(<<"0">>)]
PayloadA == [plus_minus |-> IntVal(-1), blocked_shots |-> StrVal(<<"2">>)]
PayloadB == [plus_minus |-> NoneVal, takeaways |-> IntVal(1), shots_taken |-> StrVal(<<" ", "3">>)]
PayloadBad == [plus_minus |-> IntVal(1), takeaways |-> StrVal(<<"x">>)]
Payloads == {PayloadZero, PayloadA, PayloadB, PayloadBad}

\* Entries of data['players']: a payload for a player, or one without player_id
PlayerEntries ==
    {("player_id" :> p) @@ c : p \in PlayerIds, c \in Payloads} \cup {PayloadA}

PlayerLists == UNION {[1..n -> PlayerEntries] : n \in 0..MaxEntries}

GameNames == {NoneVal, StrVal(<<" ">>), StrVal(<<" ", "A", " ">>)}

SaveRequests ==
    {[game_date |-> d, game_name |-> n, players |-> l, autosave |-> a] :
        d \in DateStrs, n \in GameNames, l \in PlayerLists, a \in {NoneVal, BoolVal(TRUE)}}

BulkLists == UNION {[1..n -> DateStrs] : n \in 0..MaxBulk}

----------------------------------------------------------------------------
(* Spec: one request at a time *)

Idle == req = NoReq

Serve(op, args, commit_ok, out) ==
    /\ req' = [op |-> op, args |-> args, commit_ok |-> commit_ok]
    /\ pre' = [stats |-> stats, games |-> games]
    /\ stats' = out.stats
    /\ games' = out.games
    /\ resp' = out.resp
    /\ UNCHANGED <<cstats, cgames, lock, last_commit, proc>>

save_game_stats ==
    /\ Idle
    /\ \E data \in SaveRequests, commit_ok \in BOOLEAN :
          Serve("save_game_stats", data, commit_ok, SaveGameStats(stats, games, data, commit_ok))

delete_stat ==
    /\ Idle
    /\ \E stat \in BagToSet(stats) \cup {NoneVal}, commit_ok \in BOOLEAN :
          Serve("delete_stat", stat, commit_ok,
                DeleteStat(stats, stat, commit_ok) @@ [games |-> games])

delete_game ==
    /\ Idle
    /\ \E d \in DateStrs, commit_ok \in BOOLEAN :
          Serve("delete_game", d, commit_ok, DeleteGame(stats, games, d, commit_ok))

delete_games_bulk ==
    /\ Idle
    /\ \E l \in BulkLists, commit_ok \in BOOLEAN :
          Serve("delete_games_bulk", l, commit_ok, DeleteGamesBulk(stats, games, l, commit_ok))

\* index: every player, ordered by number, with its totals
index ==
    /\ Idle
    /\ Serve("index", <<>>, TRUE,
             [stats |-> stats, games |-> games,
              resp |-> Rendered("index.html",
                         [i \in 1..NumPlayers |->
                            [id |-> Player[i].id, number |-> Player[i].number,
                             name |-> Player[i].name,
                             stats |-> get_total_stats(stats, Player[i].id)]])])

\* games
games_ ==
    /\ Idle
    /\ Serve("games", <<>>, TRUE,
             [stats |-> stats, games |-> games,
              resp |-> Rendered("games.html", build_games_list(stats, games))])

\* The request context ends: the response has been sent
teardown ==
    /\ ~Idle
    /\ req' = NoReq
    /\ resp' = NoResp
    /\ pre' = NoPre
    /\ UNCHANGED <<stats, games, cstats, cgames, lock, last_commit, proc>>

Init ==
    /\ stats = EmptyBag
    /\ games = {}
    /\ req = NoReq
    /\ resp = NoResp
    /\ pre = NoPre
    /\ cstats = <<>>
    /\ cgames = {}
    /\ lock = 0
    /\ last_commit = 0
    /\ proc = <<>>

Next ==
    \/ save_game_stats
    \/ delete_stat
    \/ delete_game
    \/ delete_games_bulk
    \/ index
    \/ games_
    \/ teardown

Spec == Init /\ [][Next]_vars

----------------------------------------------------------------------------
(* SpecView: the games view over arbitrary contents of the two tables, among
   them dates that only GameStat rows carry *)

ViewRows == {GameStat(p, d, 1, 0, 0, 0) : p \in PlayerIds, d \in Dates}
ViewStats == {SetToBag(R1) (+) SetToBag(R2) : R1 \in SUBSET ViewRows, R2 \in SUBSET ViewRows}
ViewGames ==
    {G \in SUBSET {Game(d, n) : d \in Dates, n \in {NoneVal, StrVal(<<"A">>)}} :
        \A g, h \in G : g.game_date = h.game_date => g = h}

InitView ==
    /\ stats \in ViewStats
    /\ games \in ViewGames
    /\ req = NoReq
    /\ resp = NoResp
    /\ pre = NoPre
    /\ cstats = <<>>
    /\ cgames = {}
    /\ lock = 0
    /\ last_commit = 0
    /\ proc = <<>>

NextView ==
    \/ games_
    \/ teardown

SpecView == InitView /\ [][NextView]_vars

----------------------------------------------------------------------------
(* SpecConc: two save_game_stats requests for the same player and date, each
   on its own session and connection to the one SQLite database.  cstats is
   the committed GameStat table as a sequence (a row's id is its index),
   cgames the committed Game table, lock the connection that holds the
   database's write lock (0: none), last_commit the request that committed
   last.  A session reads committed rows; its first INSERT or UPDATE takes
   the write lock, which it keeps until commit or rollback. *)

Procs == {1, 2}
ThePlayer == 1
TheDate == 1

\* n: the requests the client has sent so far
IdleProc(n) ==
    [pc |-> "idle", n |-> n, vals |-> AllZero, existing |-> 0, loaded |-> AllZero,
     add_game |-> FALSE, raced |-> FALSE, status |-> 0]

Other(r) == 3 - r

\* Requests begun so far
Begun == proc[1].n + proc[2].n

\* Another request has looked the row up and has not yet committed
InFlight(r) == proc[r].pc \in {"query_game", "commit"}

\* Rows of the committed table for (player_id, game_date), by id
IdsFor(T, player_id, game_date) ==
    {i \in DOMAIN T : T[i].player_id = player_id /\ T[i].game_date = game_date}

\* The flush has something to emit: an INSERT, or an UPDATE of the columns
\* whose new value differs from the loaded one
Dirty(p) == p.existing = 0 \/ p.loaded # p.vals

\* UPDATE game_stat SET <changed columns> WHERE id = existing
Updated(row, p) ==
    [row EXCEPT
       !.plus_minus = IF p.vals[1] # p.loaded[1] THEN p.vals[1] ELSE @,
       !.blocked_shots = IF p.vals[2] # p.loaded[2] THEN p.vals[2] ELSE @,
       !.takeaways = IF p.vals[3] # p.loaded[3] THEN p.vals[3] ELSE @,
       !.shots_taken = IF p.vals[4] # p.loaded[4] THEN p.vals[4] ELSE @]

SeqUnchanged == UNCHANGED <<stats, games, req, resp, pre>>

\* Lines 165-176: the request arrives with a non-zero entry for ThePlayer on
\* TheDate and no name; the date parses and the four fields coerce
begin(r) ==
    /\ proc[r].pc = "idle"
    /\ Begun < MaxRequests
    /\ \E c \in {PayloadA, PayloadB} :
          proc' = [proc EXCEPT ![r] = [@ EXCEPT !.pc = "query_stat", !.n = @ + 1,
                                                !.vals = EntryValues(c)]]
    /\ UNCHANGED <<cstats, cgames, lock, last_commit>>
    /\ SeqUnchanged

\* Lines 179-204: the lookup reads the committed table; the update or the
\* insert stays pending in the session
query_stat(r) ==
    /\ proc[r].pc = "query_stat"
    /\ LET found == IdsFor(cstats, ThePlayer, TheDate)
           raced == InFlight(Other(r))
       IN  \/ /\ found = {}
              /\ proc' = [proc EXCEPT
                            ![r] = [@ EXCEPT !.pc = "query_game", !.existing = 0,
                                             !.raced = raced],
                            ![Other(r)] = [@ EXCEPT !.raced = @ \/ raced]]
           \/ \E i \in found :
                 proc' = [proc EXCEPT
                            ![r] = [@ EXCEPT !.pc = "query_game", !.existing = i,
                                             !.loaded = Counters(cstats[i]),
                                             !.raced = raced],
                            ![Other(r)] = [@ EXCEPT !.raced = @ \/ raced]]
    /\ UNCHANGED <<cstats, cgames, lock, last_commit>>
    /\ SeqUnchanged

\* Line 207: the query autoflushes the pending statement, which takes the
\* write lock, then reads the Game row; lines 208-214 decide the Game insert
query_game(r) ==
    /\ proc[r].pc = "query_game"
    /\ IF Dirty(proc[r]) THEN lock = 0 /\ lock' = r ELSE UNCHANGED lock
    /\ proc' = [proc EXCEPT ![r] = [@ EXCEPT !.pc = "commit",
                                             !.add_game = GamesOn(cgames, TheDate) = {}]]
    /\ UNCHANGED <<cstats, cgames, last_commit>>
    /\ SeqUnchanged

\* The table after the session's pending GameStat statement
Flushed(T, p) ==
    IF ~Dirty(p) THEN T
    ELSE IF p.existing = 0
    THEN Append(T, GameStat(ThePlayer, TheDate, p.vals[1], p.vals[2], p.vals[3], p.vals[4]))
    ELSE [T EXCEPT ![p.existing] = Updated(@, p)]

\* Line 216: the Game insert is flushed (UNIQUE game_date may refuse it, and
\* the except branch rolls everything back), then the transaction commits
commit(r) ==
    /\ proc[r].pc = "commit"
    /\ (proc[r].add_game /\ ~Dirty(proc[r])) => lock = 0
    /\ IF proc[r].add_game /\ GamesOn(cgames, TheDate) # {}
       THEN /\ proc' = [proc EXCEPT ![r] = [@ EXCEPT !.pc = "done", !.status = 400]]
            /\ UNCHANGED <<cstats, cgames, last_commit>>
       ELSE /\ cstats' = Flushed(cstats, proc[r])
            /\ cgames' = IF proc[r].add_game THEN cgames \cup {Game(TheDate, NoneVal)} ELSE cgames
            /\ last_commit' = r
            /\ proc' = [proc EXCEPT ![r] = [@ EXCEPT !.pc = "done", !.status = 200]]
    /\ lock' = IF lock = r THEN 0 ELSE lock
    /\ SeqUnchanged

\* The write lock stays with the other connection past the busy timeout:
\* OperationalError, rollback, failure response
lock_timeout(r) ==
    /\ lock = Other(r)
    /\ \/ proc[r].pc = "query_game" /\ Dirty(proc[r])
       \/ proc[r].pc = "commit" /\ proc[r].add_game /\ ~Dirty(proc[r])
    /\ proc' = [proc EXCEPT ![r] = [@ EXCEPT !.pc = "done", !.status = 400]]
    /\ UNCHANGED <<cstats, cgames, lock, last_commit>>
    /\ SeqUnchanged

\* The response has been sent
finish(r) ==
    /\ proc[r].pc = "done"
    /\ proc' = [proc EXCEPT ![r] = IdleProc(@.n)]
    /\ UNCHANGED <<cstats, cgames, lock, last_commit>>
    /\ SeqUnchanged

InitConc ==
    /\ stats = EmptyBag
    /\ games = {}
    /\ req = NoReq
    /\ resp = NoResp
    /\ pre = NoPre
    /\ cstats = <<>>
    /\ cgames = {}
    /\ lock = 0
    /\ last_commit = 0
    /\ proc = [r \in Procs |-> IdleProc(0)]

NextConc ==
    \/ \E r \in Procs : begin(r)
    \/ \E r \in Procs : query_stat(r)
    \/ \E r \in Procs : query_game(r)
    \/ \E r \in Procs : commit(r)
    \/ \E r \in Procs : lock_timeout(r)
    \/ \E r \in Procs : finish(r)

SpecConc == InitConc /\ [][NextConc]_vars

----------------------------------------------------------------------------
(* Vocabulary of the properties *)

\* The request just served, by handler
Served(op) == req.op = op
Saved == Served("save_game_stats") /\ resp.status = 200

\* The date a served request names, when its date string is well formed
WellFormed(date_string) == date_string.kind = "iso"

\* Entry i is the last entry of the submission for its player
LastFor(players, i) ==
    \A j \in (i + 1)..Len(players) : players[j].player_id # players[i].player_id

\* Number of Counter Sets stored in S for (p, d)
CountFor(S, p, d) == BagCardinality([r \in StatsFor(S, p, d) |-> S[r]])

\* An entry that makes the loop raise: a field that does not coerce, or no player_id
BadEntry(e) ==
    \/ "player_id" \notin DOMAIN e
    \/ \E k \in 1..4 : ~Coerce(e, Fields[k]).ok

\* The submitted name is non-empty after trimming
NameGiven(data) ==
    /\ data.game_name.t = "str"
    /\ \E i \in 1..Len(data.game_name.v) : data.game_name.v[i] \notin Whitespace

\* The rows of S that belong to player p, and the sum over them of a field
RowsOf(S, p) == {r \in BagToSet(S) : r.player_id = p}

RECURSIVE Weighted(_, _, _)
Weighted(S, R, field) ==
    IF R = {} THEN 0
    ELSE LET r == CHOOSE x \in R : TRUE
         IN  S[r] * (IF field = "games_played" THEN 1 ELSE r[field]) + Weighted(S, R \ {r}, field)

----------------------------------------------------------------------------
(* Properties of Spec *)

\* C1: no stored Counter Set has all four counters at zero; and after a
\* successful submission whose (last) entry for a player is all-zero, no
\* Counter Set is left for that player and the submitted date.
C1_NoAllZeroCounterSet ==
    /\ \A r \in BagToSet(stats) : Counters(r) # AllZero
    /\ Saved =>
         LET players == req.args.players
             d == req.args.game_date.d
         IN  \A i \in 1..Len(players) :
                (EntryValues(players[i]) = AllZero /\ LastFor(players, i))
                   => StatsFor(stats, players[i].player_id, d) = {}

\* A non-zero Counter Set was stored and a resubmission with all-zero values removed it
C1_Witness ==
    /\ Saved
    /\ LET players == req.args.players
           d == req.args.game_date.d
       IN  \E i \in 1..Len(players) :
              /\ EntryValues(players[i]) = AllZero
              /\ LastFor(players, i)
              /\ StatsFor(pre.stats, players[i].player_id, d) # {}
              /\ StatsFor(stats, players[i].player_id, d) = {}

\* C2 as stated: after a successful submission, every non-zero entry for a
\* player that had a Counter Set on the date leaves exactly one Counter Set
\* for (player, date), carrying that entry's values.
C2_AnyEntryReplaces ==
    Saved =>
      LET players == req.args.players
          d == req.args.game_date.d
      IN  \A i \in 1..Len(players) :
             (EntryValues(players[i]) # AllZero
                /\ StatsFor(pre.stats, players[i].player_id, d) # {})
             => /\ CountFor(stats, players[i].player_id, d) = 1
                /\ \A r \in StatsFor(stats, players[i].player_id, d) :
                      Counters(r) = EntryValues(players[i])

\* C2 amended: the same for the last entry the submission carries for the player.
C2_LastEntryReplaces ==
    Saved =>
      LET players == req.args.players
          d == req.args.game_date.d
      IN  \A i \in 1..Len(players) :
             (EntryValues(players[i]) # AllZero
                /\ LastFor(players, i)
                /\ StatsFor(pre.stats, players[i].player_id, d) # {})
             => /\ CountFor(stats, players[i].player_id, d) = 1
                /\ \A r \in StatsFor(stats, players[i].player_id, d) :
                      Counters(r) = EntryValues(players[i])

\* A Counter Set with other non-zero values existed and was overwritten
C2_Witness ==
    /\ Saved
    /\ LET players == req.args.players
           d == req.args.game_date.d
       IN  \E i \in 1..Len(players) :
              /\ EntryValues(players[i]) # AllZero
              /\ LastFor(players, i)
              /\ \E r \in StatsFor(pre.stats, players[i].player_id, d) :
                    Counters(r) # EntryValues(players[i])
              /\ \E r \in StatsFor(stats, players[i].player_id, d) :
                    Counters(r) = EntryValues(players[i])

\* The served submission is one that fails: its date string is malformed, one
\* of its entries makes the loop raise, or the commit fails
SubmissionFails ==
    /\ Served("save_game_stats")
    /\ \/ ~WellFormed(req.args.game_date)
       \/ \E i \in 1..Len(req.args.players) : BadEntry(req.args.players[i])
       \/ ~req.commit_ok

\* C3: a submission that fails leaves the Counter Sets and the Game rows as
\* they were before the call and is answered with a failure, never a success.
C3_SubmitAtomic ==
    SubmissionFails =>
      /\ stats = pre.stats
      /\ games = pre.games
      /\ \/ resp.status = 400 /\ resp.success = FALSE
         \/ resp.status = 500

\* A submission whose first entry changes a stored Counter Set and whose second entry raises
C3_Witness ==
    /\ Served("save_game_stats")
    /\ WellFormed(req.args.game_date)
    /\ Len(req.args.players) = 2
    /\ ~BadEntry(req.args.players[1])
    /\ BadEntry(req.args.players[2])
    /\ \E r \in StatsFor(pre.stats, req.args.players[1].player_id, req.args.game_date.d) :
          Counters(r) # EntryValues(req.args.players[1])
    /\ resp.status = 400
    /\ stats = pre.stats

\* C4: after a successful submission for a date without a Game row, a Game
\* row for the date exists iff the trimmed name is non-empty or some entry
\* had a non-zero value; all-zero entries without a name change neither table.
C4_GameRowCreation ==
    (Saved /\ GamesOn(pre.games, req.args.game_date.d) = {}) =>
      LET players == req.args.players
          d == req.args.game_date.d
          touched == \E i \in 1..Len(players) : EntryValues(players[i]) # AllZero
      IN  /\ GamesOn(games, d) # {} <=> (NameGiven(req.args) \/ touched)
          /\ (~NameGiven(req.args) /\ ~touched) => (stats = pre.stats /\ games = pre.games)

\* All-zero entries with a blank name for a new date: no Game row, no Counter Sets
C4_Witness ==
    /\ Saved
    /\ GamesOn(pre.games, req.args.game_date.d) = {}
    /\ req.args.game_name = StrVal(<<" ">>)
    /\ Len(req.args.players) >= 1
    /\ \A i \in 1..Len(req.args.players) : EntryValues(req.args.players[i]) = AllZero
    /\ GamesOn(games, req.args.game_date.d) = {}
    /\ BagToSet(StatsOn(stats, req.args.game_date.d)) = {}

\* C5: after delete_game with a parseable date and no internal failure, no
\* Counter Set and no Game row of that date is left.
C5_DeleteGameRemovesAll ==
    (Served("delete_game") /\ WellFormed(req.args) /\ req.commit_ok) =>
      /\ BagToSet(StatsOn(stats, req.args.d)) = {}
      /\ GamesOn(games, req.args.d) = {}

\* A game with Counter Sets of two players and a Game row was deleted
C5_Witness ==
    /\ Served("delete_game")
    /\ WellFormed(req.args)
    /\ req.commit_ok
    /\ Cardinality({r.player_id : r \in BagToSet(StatsOn(pre.stats, req.args.d))}) >= 2
    /\ GamesOn(pre.games, req.args.d) # {}
    /\ BagToSet(StatsOn(stats, req.args.d)) = {}

\* C6: delete_games_bulk never raises; it removes the Counter Sets and the
\* Game row of exactly the parseable dates of the list, wherever an
\* unparseable string stands, and leaves every other date as it was.
C6_BulkDeleteSkipsUnparseable ==
    Served("delete_games_bulk") =>
      /\ resp = Redirect("games")
      /\ req.commit_ok =>
           \A d \in Dates :
              IF \E i \in 1..Len(req.args) : req.args[i] = IsoStr(d)
              THEN BagToSet(StatsOn(stats, d)) = {} /\ GamesOn(games, d) = {}
              ELSE StatsOn(stats, d) = StatsOn(pre.stats, d)
                   /\ GamesOn(games, d) = GamesOn(pre.games, d)

\* An unparseable string first, then a stored date: that date is removed, another one is kept
C6_Witness ==
    /\ Served("delete_games_bulk")
    /\ req.commit_ok
    /\ Len(req.args) = 2
    /\ ~WellFormed(req.args[1])
    /\ WellFormed(req.args[2])
    /\ BagToSet(StatsOn(pre.stats, req.args[2].d)) # {}
    /\ BagToSet(StatsOn(stats, req.args[2].d)) = {}
    /\ \E d \in Dates : d # req.args[2].d /\ BagToSet(StatsOn(stats, d)) # {}

\* C7: for every player, totals(player) is, field by field, the sum over the
\* Counter Sets stored for that player, and games_played their number.
C7_TotalsAreSums ==
    \A p \in PlayerIds :
       LET t == get_total_stats(stats, p)
           R == RowsOf(stats, p)
       IN  /\ \A k \in 1..4 : t[Fields[k]] = Weighted(stats, R, Fields[k])
           /\ t.games_played = Weighted(stats, R, "games_played")

\* A player with two Counter Sets lost one to delete_counter_set and keeps a non-zero total
C7_Witness ==
    /\ Served("delete_stat")
    /\ resp.status = 302
    /\ \E p \in PlayerIds :
          /\ get_total_stats(pre.stats, p).games_played = 2
          /\ get_total_stats(stats, p).games_played = 1
          /\ get_total_stats(stats, p).blocked_shots > 0
          /\ \E q \in PlayerIds : q # p /\ get_total_stats(stats, q).games_played > 0

\* C9 as stated: a submission with a malformed date string is answered with
\* the structured failure {success: false, message} and commits nothing.
C9_MalformedDateStructuredFailure ==
    (Served("save_game_stats") /\ ~WellFormed(req.args.game_date)) =>
      /\ resp.status = 400
      /\ resp.success = FALSE
      /\ stats = pre.stats
      /\ games = pre.games

----------------------------------------------------------------------------
(* Properties of SpecView *)

\* C8: list_games() has exactly one entry per date of the union of the Game
\* dates and the Counter Set dates, in descending date order; an entry's name
\* is the Game row's name, or "" without a row or without a name, and its
\* count is the number of Counter Sets stored for the date.
C8_GamesList ==
    LET L == build_games_list(stats, games)
        U == {g.game_date : g \in games} \cup {r.game_date : r \in BagToSet(stats)}
    IN  /\ Len(L) = Cardinality(U)
        /\ {L[i].game_date : i \in 1..Len(L)} = U
        /\ \A i, j \in 1..Len(L) : i < j => L[i].game_date > L[j].game_date
        /\ \A i \in 1..Len(L) :
              LET d == L[i].game_date
                  named == {g \in games : g.game_date = d /\ g.name.t = "str"}
              IN  /\ IF named = {} THEN L[i].name = <<>>
                     ELSE \A g \in named : L[i].name = g.name.v
                  /\ L[i].entries_count =
                        Weighted(stats, {r \in BagToSet(stats) : r.game_date = d}, "games_played")
        /\ Served("games") => resp.context = L

\* The games page lists a date that only Counter Sets carry and a named Game without counters
C8_Witness ==
    /\ Served("games")
    /\ \E i, j \in 1..Len(resp.context) :
          /\ i < j
          /\ GamesOn(games, resp.context[i].game_date) = {}
          /\ resp.context[i].name = <<>>
          /\ resp.context[i].entries_count >= 2
          /\ resp.context[j].name = <<"A">>
          /\ resp.context[j].entries_count = 0

----------------------------------------------------------------------------
(* Properties of SpecConc *)

\* C10 as stated: when two submissions for the same (player, date) with
\* non-zero values ran with their lookups and writes interleaved and both
\* have answered with success, the store holds a single Counter Set for the
\* pair, carrying the values of the request that committed last.
C10_LastCommitWins ==
    (\A r \in Procs : proc[r].pc = "done" /\ proc[r].status = 200 /\ proc[r].raced) =>
      /\ Cardinality(IdsFor(cstats, ThePlayer, TheDate)) = 1
      /\ \A i \in IdsFor(cstats, ThePlayer, TheDate) :
            Counters(cstats[i]) = proc[last_commit].vals

====
